---- MODULE Spec2Model ----
(***************************************************************************)
(* A model of src/aggregator/app.py: the scan job runner (start_scan,      *)
(* scan_worker, the history file), the scan pipeline (scan_partial,        *)
(* scan_full), the scorer (analyze) and the log stream (log, stream).      *)
(*                                                                         *)
(* Encoding of Python values:                                              *)
(*   None is the empty tuple <<>> and a present value x is <<x>>, so an    *)
(*   optional number is <<>> or <<n>>;                                     *)
(*   a dict is a function from its keys, a key that is absent from the     *)
(*   dict is absent from the DOMAIN;                                       *)
(*   percentages are integers (psutil gives floats; every threshold of     *)
(*   the code is an integer compared with >=).                             *)
(***************************************************************************)
EXTENDS Integers, Sequences, FiniteSets, TLC

VARIABLES
    state,       \* _state: running, mode, start_time, latest
    lock,        \* _lock: 0 when free, else the worker thread holding it
    hfile,       \* scan_history.json: [ok, items]; ok = FALSE is unparsable
    uploads,     \* report files written under uploads/
    clock,       \* datetime.now(): every reading is later than the last
    rpc,         \* position of each start_scan request handler
    resp,        \* response of each start_scan request
    wpc,         \* position of each scan_worker thread
    wmode,       \* scan_worker's mode argument: None or <<text>>
    wrep,        \* scan_worker's local rep
    wh,          \* append_history's local h
    saved,       \* history: entries successfully dumped, in completion order
    appendCalls, \* history: per worker, calls of append_history made
    tel,         \* pipeline run: outcomes of the telemetry calls
    pmode,       \* pipeline run: mode
    pres,        \* pipeline run: result of scan_partial / scan_full
    ppc,         \* pipeline run: position
    srep,        \* scorer run: the report given to analyze
    sout,        \* scorer run: the report analyze returned
    spc,         \* scorer run: position
    log_q,       \* log stream: _log_q, the lines put and not yet taken
    logged,      \* log stream history: per call of log, who was attached
    subs         \* log stream: each /stream connection, [pc, got, last]

jobVars == <<state, lock, hfile, uploads, clock, rpc, resp,
             wpc, wmode, wrep, wh, saved, appendCalls>>
pipeVars == <<tel, pmode, pres, ppc>>
scoreVars == <<srep, sout, spc>>
logVars == <<log_q, logged, subs>>
vars == <<jobVars, pipeVars, scoreVars, logVars>>

----------------------------------------------------------------------------
(* Python values *)

None == <<>>
Some(x) == <<x>>

\* dict.get(k, default)
Get(d, k, default) == IF k \in DOMAIN d THEN d[k] ELSE default

\* d[k] = v
Put(d, k, v) == [f \in (DOMAIN d) \cup {k} |-> IF f = k THEN v ELSE d[f]]

\* the empty dict
EmptyDict == [f \in {} |-> None]

\* `x or 0` for an optional number
OrZero(x) == IF x = None THEN 0 ELSE x[1]

----------------------------------------------------------------------------
(* The scorer: analyze(rep), src/aggregator/app.py:258-302.  The running   *)
(* pair (score, rem) is threaded through the checks in the code's order.   *)

HighCpu == [title |-> <<"High CPU">>,
            action |-> "Check top processes, consider stopping or reconfiguring heavy services."]
ElevatedCpu == [title |-> <<"Elevated CPU">>,
                action |-> "Investigate processes with high CPU."]
LowMemory == [title |-> <<"Low available memory">>,
              action |-> "Restart high memory processes or add memory."]
HighMemory == [title |-> <<"High memory usage">>,
               action |-> "Investigate memory-hungry processes."]
DiskFull(d) == [title |-> <<"Disk ", Get(d, "mount", "None"), " nearly full">>,
                action |-> "Clean temp files, rotate logs, or extend volume."]
DiskHigh(d) == [title |-> <<"Disk ", Get(d, "mount", "None"), " high usage">>,
                action |-> "Investigate large files."]
NetworkOffline == [title |-> <<"Network offline">>,
                   action |-> "Check cable/router/Wi-Fi settings."]

Deduct(acc, n, r) == [score |-> acc.score - n, rem |-> Append(acc.rem, r)]

\* AnalyzeCpu with the elif of line 270 written as a second if
AnalyzeCpuTwoIfs(acc, rep) ==
    LET cpu == OrZero(Get(rep, "cpu_percent", None))
        a1 == IF cpu >= 90 THEN Deduct(acc, 40, HighCpu) ELSE acc
    IN IF cpu >= 75 THEN Deduct(a1, 15, ElevatedCpu) ELSE a1

\* lines 263, 266-273
AnalyzeCpu(acc, rep) ==
    LET cpu == OrZero(Get(rep, "cpu_percent", None)) IN
    IF cpu >= 90 THEN Deduct(acc, 40, HighCpu)
    ELSE IF cpu >= 75 THEN Deduct(acc, 15, ElevatedCpu)
    ELSE acc

\* AnalyzeMemory with the deductions of lines 275 and 279 exchanged
AnalyzeMemorySwapped(acc, rep) ==
    LET mem == OrZero(Get(rep, "memory_percent", None)) IN
    IF mem >= 95 THEN Deduct(acc, 12, LowMemory)
    ELSE IF mem >= 85 THEN Deduct(acc, 35, HighMemory)
    ELSE acc

\* lines 264, 274-281
AnalyzeMemory(acc, rep) ==
    LET mem == OrZero(Get(rep, "memory_percent", None)) IN
    IF mem >= 95 THEN Deduct(acc, 35, LowMemory)
    ELSE IF mem >= 85 THEN Deduct(acc, 12, HighMemory)
    ELSE acc

\* lines 283-293, one disk: d.get('percent', 0) is 0 for an absent key; a
\* percent of None makes the comparison raise TypeError, which the inner
\* except turns into `continue`.
AnalyzeDisk(acc, d) ==
    LET p == Get(d, "percent", Some(0)) IN
    IF p = None THEN acc
    ELSE IF p[1] >= 95 THEN Deduct(acc, 35, DiskFull(d))
    ELSE IF p[1] >= 90 THEN Deduct(acc, 12, DiskHigh(d))
    ELSE acc

\* lines 282-293: for d in disks
RECURSIVE AnalyzeDisks(_, _)
AnalyzeDisks(acc, disks) ==
    IF disks = <<>> THEN acc
    ELSE AnalyzeDisks(AnalyzeDisk(acc, Head(disks)), Tail(disks))

\* AnalyzeNetwork with the deduction that makes the four-signal example sum
\* to 107
AnalyzeNetworkHeavy(acc, rep) ==
    IF ~Get(rep, "network_online", TRUE)
    THEN Deduct(acc, 37, NetworkOffline)
    ELSE acc

\* AnalyzeNetwork reading an absent network_online as False
AnalyzeNetworkDefaultOffline(acc, rep) ==
    IF ~Get(rep, "network_online", FALSE)
    THEN Deduct(acc, 25, NetworkOffline)
    ELSE acc

\* lines 294-297: rep.get('network_online', True)
AnalyzeNetwork(acc, rep) ==
    IF ~Get(rep, "network_online", TRUE)
    THEN Deduct(acc, 25, NetworkOffline)
    ELSE acc

\* ClampScore without the max
ClampScoreMissing(score) == score

\* line 300: max(0, score)
ClampScore(score) == IF score > 0 THEN score ELSE 0

\* analyze continuing from the score and the remediations its argument holds
analyzeAccumulating(rep) ==
    LET a0 == [score |-> Get(rep, "score", 100), rem |-> Get(rep, "remediations", <<>>)]
        a1 == AnalyzeCpu(a0, rep)
        a2 == AnalyzeMemory(a1, rep)
        a3 == AnalyzeDisks(a2, Get(rep, "disks", <<>>))
        a4 == AnalyzeNetwork(a3, rep)
    IN Put(Put(rep, "score", ClampScore(a4.score)), "remediations", a4.rem)

\* analyze(rep).  The outer try (lines 262-299) only catches on values no
\* report of this model holds (a cpu that is not a number, disks that is
\* not a list), so its except branch is not modelled.
analyze(rep) ==
    LET a0 == [score |-> 100, rem |-> <<>>]
        a1 == AnalyzeCpu(a0, rep)
        a2 == AnalyzeMemory(a1, rep)
        a3 == AnalyzeDisks(a2, Get(rep, "disks", <<>>))
        a4 == AnalyzeNetwork(a3, rep)
    IN Put(Put(rep, "score", ClampScore(a4.score)), "remediations", a4.rem)

----------------------------------------------------------------------------
(* The scan pipeline: gather_basic, quick_cpu_sample, scan_partial and     *)
(* scan_full, src/aggregator/app.py:85-255.                                *)
(*                                                                         *)
(* t is the outcome of every telemetry call of one run: None when the call *)
(* raises, else its value.  A run is threaded through a record             *)
(*   [raised, rep, logs, order]                                            *)
(* raised: an exception is propagating to the caller of the pipeline;      *)
(* logs: the lines given to log(), in order; order: the stages entered.    *)
(* Once raised, the remaining statements of the function do not run.       *)
(* A log line is a tuple: its fixed text, then the numbers it formats      *)
(* (the text of an exception is left out).                                 *)

Log(st, line) == [st EXCEPT !.logs = Append(@, line)]
Enter(st, stage) == [st EXCEPT !.order = Append(@, stage)]
SetField(st, k, v) == [st EXCEPT !.rep = Put(@, k, v)]
Raise(st) == [st EXCEPT !.raised = TRUE]

\* lines 91-103: the first AF_INET address that does not start with "127.";
\* addrs is the flattened psutil.net_if_addrs(), None when the call raises
RECURSIVE FirstIPv4(_)
FirstIPv4(addrs) ==
    IF addrs = <<>> THEN "N/A"
    ELSE IF Head(addrs).family = "AF_INET" /\ ~Head(addrs).loopback
         THEN Head(addrs).address
         ELSE FirstIPv4(Tail(addrs))

\* gather_basic(), lines 85-104: socket.gethostname() is not wrapped,
\* psutil.net_if_addrs() is (lines 92-102)
GatherBasic(st, t, now) ==
    IF st.raised THEN st
    ELSE LET s1 == Enter(st, "identity") IN
         IF t.hostname = None THEN Raise(s1)
         ELSE LET ip == IF t.ifaddrs = None THEN "N/A" ELSE FirstIPv4(t.ifaddrs[1])
                  info == [host |-> t.hostname[1], platform |-> t.platform,
                           timestamp |-> now, ip |-> ip]
              IN [s1 EXCEPT !.rep = info]

\* quick_cpu_sample(), lines 107-112, and line 119
CpuStage(st, t) ==
    IF st.raised THEN st
    ELSE LET s1 == Enter(st, "cpu") IN
         IF t.cpu = None
         THEN SetField(Log(s1, <<"CPU sample failed">>), "cpu_percent", None)
         ELSE SetField(s1, "cpu_percent", t.cpu)

\* lines 120-121: psutil.virtual_memory() is not wrapped
MemoryStage(st, t) ==
    IF st.raised THEN st
    ELSE LET s1 == Enter(st, "memory") IN
         IF t.mem = None THEN Raise(s1)
         ELSE SetField(s1, "memory_percent", t.mem)

\* lines 125-139, the loop body: a partition with an empty fstype is
\* skipped, and so is one whose disk_usage raises.  (total_gb, used_gb and
\* free_gb are carried by the code and read by nothing; they are left out.)
RECURSIVE DiskList(_)
DiskList(parts) ==
    IF parts = <<>> THEN <<>>
    ELSE LET p == Head(parts) IN
         IF p.fstype = "" \/ p.usage = None
         THEN DiskList(Tail(parts))
         ELSE <<[mount |-> p.mountpoint, device |-> p.device, percent |-> p.usage]>>
              \o DiskList(Tail(parts))

\* DiskStage without the try of lines 124-141
DiskStageUnwrapped(st, t) ==
    IF st.raised THEN st
    ELSE LET s1 == Enter(st, "disks") IN
         IF t.partitions = None
         THEN Raise(s1)
         ELSE SetField(s1, "disks", DiskList(t.partitions[1]))

\* lines 123-142
DiskStage(st, t) ==
    IF st.raised THEN st
    ELSE LET s1 == Enter(st, "disks") IN
         IF t.partitions = None
         THEN SetField(Log(s1, <<"Disk scan failed">>), "disks", <<>>)
         ELSE SetField(s1, "disks", DiskList(t.partitions[1]))

\* lines 147-156, the loop body: a process whose info cannot be read is
\* skipped.  (mem_mb is left out: nothing reads it.)
RECURSIVE ProcList(_)
ProcList(ps) ==
    IF ps = <<>> THEN <<>>
    ELSE LET p == Head(ps) IN
         IF ~p.readable THEN ProcList(Tail(ps))
         ELSE <<[pid |-> p.pid, name |-> p.name, cpu |-> p.cpu]>> \o ProcList(Tail(ps))

\* insertion of x into a list sorted by descending cpu, after its equals:
\* sorted(..., reverse=True) is stable
RECURSIVE InsertDesc(_, _)
InsertDesc(x, sorted) ==
    IF sorted = <<>> THEN <<x>>
    ELSE IF x.cpu[1] > Head(sorted).cpu[1] THEN <<x>> \o sorted
    ELSE <<Head(sorted)>> \o InsertDesc(x, Tail(sorted))

RECURSIVE SortDesc(_)
SortDesc(pros) ==
    IF pros = <<>> THEN <<>>
    ELSE LET n == Len(pros) IN
         InsertDesc(pros[n], SortDesc(SubSeq(pros, 1, n - 1)))

\* pros[:8]
FirstN(s, n) == IF Len(s) > n THEN SubSeq(s, 1, n) ELSE s

\* line 157: comparing a cpu of None raises TypeError, which every sort of
\* two or more elements with one does
SortRaises(pros) == Len(pros) >= 2 /\ \E i \in 1..Len(pros) : pros[i].cpu = None

\* lines 145-160: on an exception of the sort pros stays the unsorted,
\* uncut list built by the loop
ProcessStage(st, t) ==
    IF st.raised THEN st
    ELSE LET s1 == Enter(st, "processes") IN
         IF t.procs = None
         THEN SetField(Log(s1, <<"Process sampling failed">>), "top_processes", <<>>)
         ELSE LET pros == ProcList(t.procs[1]) IN
              IF SortRaises(pros)
              THEN SetField(Log(s1, <<"Process sampling failed">>), "top_processes", pros)
              ELSE SetField(s1, "top_processes", FirstN(SortDesc(pros), 8))

\* lines 163-176: t.connect is whether the TCP connect succeeded
NetworkStage(st, t) ==
    IF st.raised THEN st
    ELSE SetField(Enter(st, "network"), "network_online", t.connect)

\* line 179 and line 254
AnalyzeStage(st) ==
    IF st.raised THEN st
    ELSE [st EXCEPT !.rep = analyze(@)]

\* ScanPartialFrom with the network test ahead of the process sampling
ScanPartialNetworkFirst(st, t, now) ==
    LET s0 == Log(st, <<"Starting PARTIAL scan (quick).">>)
        s1 == GatherBasic(s0, t, now)
        s2 == CpuStage(s1, t)
        s3 == MemoryStage(s2, t)
        s4 == DiskStage(s3, t)
        s5 == NetworkStage(s4, t)
        s6 == ProcessStage(s5, t)
    IN AnalyzeStage(s6)

\* scan_partial(), lines 115-180, continuing the run st
ScanPartialFrom(st, t, now) ==
    LET s0 == Log(st, <<"Starting PARTIAL scan (quick).">>)
        s1 == GatherBasic(s0, t, now)
        s2 == CpuStage(s1, t)
        s3 == MemoryStage(s2, t)
        s4 == DiskStage(s3, t)
        s5 == ProcessStage(s4, t)
        s6 == NetworkStage(s5, t)
    IN AnalyzeStage(s6)

NewRun == [raised |-> FALSE, rep |-> EmptyDict, logs |-> <<>>, order |-> <<>>]

scan_partial(t, now) == ScanPartialFrom(NewRun, t, now)

\* lines 191-201, the loop body: connections by status (laddr and raddr are
\* the already formatted "ip:port" strings)
RECURSIVE Listening(_)
Listening(conns) ==
    IF conns = <<>> THEN <<>>
    ELSE LET c == Head(conns) IN
         (IF c.status = "LISTEN" THEN <<[pid |-> c.pid, local |-> c.laddr]>> ELSE <<>>)
         \o Listening(Tail(conns))

RECURSIVE Established(_)
Established(conns) ==
    IF conns = <<>> THEN <<>>
    ELSE LET c == Head(conns) IN
         (IF c.status # "LISTEN"
          THEN <<[pid |-> c.pid, laddr |-> c.laddr, raddr |-> c.raddr, status |-> c.status]>>
          ELSE <<>>)
         \o Established(Tail(conns))

\* lines 187-207
SocketStage(st, t) ==
    IF st.raised THEN st
    ELSE LET s1 == Enter(st, "sockets") IN
         IF t.conns = None THEN Log(s1, <<"Socket scan failed">>)
         ELSE LET l == Listening(t.conns[1])
                  e == Established(t.conns[1])
              IN Log(SetField(SetField(s1, "listening", l), "connections", e),
                     <<"Network sockets scanned", Len(l), Len(e)>>)

\* lines 213-217 (Windows: every service) and 220-226 (else: the processes
\* whose name contains "systemd")
RECURSIVE Services(_, _)
Services(system, items) ==
    IF items = <<>> THEN <<>>
    ELSE LET x == Head(items) IN
         (IF system = "Windows" THEN <<[name |-> x.name, status |-> x.status]>>
          ELSE IF x.systemd THEN <<[pid |-> x.pid, name |-> x.name]>>
          ELSE <<>>)
         \o Services(system, Tail(items))

\* lines 210-230: t.services is psutil.win_service_iter() on Windows and
\* psutil.process_iter() elsewhere, None when it raises
ServiceStage(st, t) ==
    IF st.raised THEN st
    ELSE LET s1 == Enter(st, "services") IN
         IF t.services = None THEN Log(s1, <<"Service snapshot failed">>)
         ELSE LET svcs == Services(t.system, t.services[1]) IN
              Log(SetField(s1, "services_snapshot", svcs),
                  <<"Services snapshot collected", Len(svcs)>>)

\* lines 240-248: the first candidate that exists and can be read ends the
\* loop; a file is the number of its lines, its snippet the last 300 of them
RECURSIVE Snippet(_)
Snippet(files) ==
    IF files = <<>> THEN 0
    ELSE IF Head(files) = None THEN Snippet(Tail(files))
    ELSE IF Head(files)[1] > 300 THEN 300 ELSE Head(files)[1]

\* lines 233-252: t.logfiles is, per candidate path, None when the path is
\* missing or unreadable, else its number of lines.  Nothing in the block
\* raises to its except.
LogStage(st, t) ==
    IF st.raised THEN st
    ELSE LET s1 == Enter(st, "logs")
             text == IF t.system = "Windows"
                     THEN <<"Event log extraction not enabled (pywin32 required for deep event logs).">>
                     ELSE IF Snippet(t.logfiles) > 0
                          THEN <<"lines", Snippet(t.logfiles)>>
                          ELSE <<"No readable system log available.">>
         IN Log(SetField(s1, "logs_snippet", text), <<"Logs snippet collected (best-effort)">>)

\* scan_full(), lines 183-255
scan_full(t, now) ==
    LET s0 == Log(NewRun, <<"Starting FULL scan (deep).">>)
        s1 == ScanPartialFrom(s0, t, now)
        s2 == SocketStage(s1, t)
        s3 == ServiceStage(s2, t)
        s4 == LogStage(s3, t)
    IN AnalyzeStage(s4)

\* scan_worker, lines 316-319: anything but 'partial' runs the full scan
RunScan(m, t, now) == IF m = Some("partial") THEN scan_partial(t, now) ELSE scan_full(t, now)

----------------------------------------------------------------------------
(* The job runner: start_scan (lines 462-471), scan_worker (lines 310-341) *)
(* and the history file (lines 56-80).                                     *)
(*                                                                         *)
(* Flask serves every request on a thread of its own (threaded=True, line  *)
(* 551) and every scan runs on a thread start_scan creates, so the         *)
(* statements of the handlers interleave.  Request r and the worker it     *)
(* starts share the index r.  The writes of _state under _lock are         *)
(* separate steps: start_scan and status read _state without the lock.     *)
(* The lines these handlers give to log() are left out of this part: the   *)
(* queue they go to is the subject of the log stream part below.           *)

\* number of start_scan requests
MaxRequests == 2

\* append_history(entry, max_items=8), line 74
max_items == 8

Requests == 1..MaxRequests

\* request bodies: data.get('mode', 'full'), line 467.  {"mode": "partial"}
\* asks for the quick scan; {"mode": null} gives mode None, which like
\* every mode other than 'partial' runs the deep scan (lines 316-319)
RequestBodies == {[mode |-> Some("partial")], [mode |-> None]}

\* a healthy host: what the telemetry calls of one scan return
TelHealthy ==
    [hostname |-> Some("web01"), platform |-> "Linux", system |-> "Linux",
     ifaddrs |-> Some(<<[family |-> "AF_INET", loopback |-> FALSE, address |-> "10.0.0.5"]>>),
     cpu |-> Some(50), mem |-> Some(50),
     partitions |-> Some(<<[mountpoint |-> "/", device |-> "/dev/sda1",
                            fstype |-> "ext4", usage |-> Some(50)]>>),
     procs |-> Some(<<[pid |-> 1, name |-> "systemd", cpu |-> Some(0), readable |-> TRUE]>>),
     connect |-> TRUE,
     conns |-> Some(<<>>),
     services |-> Some(<<>>),
     logfiles |-> <<None, None, None>>]

\* the telemetry a scan of the job runner may meet: a healthy host, and
\* one whose psutil.virtual_memory() raises
JobTelemetry == {TelHealthy, [TelHealthy EXCEPT !.mem = None]}

\* entries written by earlier runs of the program, oldest first
OldEntry(i) == [time |-> i, host |-> "web01", score |-> 100, cpu |-> Some(50),
                memory |-> Some(50), disks |-> <<>>]
OldHistory(n) == [i \in 1..n |-> OldEntry(i)]

\* lengths of the history file found at start-up: the file outlives the
\* process, and one more run fills it
InitialHistoryLens == {max_items - 1}

\* load_history(), lines 56-63: a missing file is the empty list, and so
\* is a file json.load cannot parse
load_history(f) == IF f.ok THEN f.items ELSE <<>>

\* h[-max_items:]
LastN(h, n) == IF Len(h) > n THEN SubSeq(h, Len(h) - n + 1, Len(h)) ELSE h

\* append_history(), lines 75-79: what is handed to save_history
AppendedHistory(f, entry) == LastN(Append(load_history(f), entry), max_items)

\* lines 332: the per-disk summary
RECURSIVE DiskSummary(_)
DiskSummary(disks) ==
    IF disks = <<>> THEN <<>>
    ELSE <<[mount |-> Get(Head(disks), "mount", None),
            percent |-> Get(Head(disks), "percent", None)]>> \o DiskSummary(Tail(disks))

\* the entry built at lines 326-333
HistoryEntry(rep, now) ==
    [time |-> Get(rep, "timestamp", now), host |-> Get(rep, "host", None),
     score |-> Get(rep, "score", None), cpu |-> Get(rep, "cpu_percent", None),
     memory |-> Get(rep, "memory_percent", None),
     disks |-> DiskSummary(Get(rep, "disks", <<>>))]

IdleState == [running |-> FALSE, mode |-> None, start_time |-> None, latest |-> None]

PipeOff == /\ tel = TelHealthy /\ pmode = Some("partial") /\ pres = NewRun /\ ppc = "off"
ScoreOff == /\ srep = EmptyDict /\ sout = EmptyDict /\ spc = "off"

\* number of /stream connections
MaxSubscribers == 2

Subscribers == 1..MaxSubscribers

\* _log_q = queue.Queue(), line 41, and no connection to /stream
LogIdle == /\ log_q = <<>> /\ logged = <<>>
LogOff == /\ LogIdle /\ subs = [s \in Subscribers |-> [pc |-> "off", got |-> <<>>, last |-> "none"]]

Init ==
    /\ state = IdleState
    /\ lock = 0
    /\ \E n \in InitialHistoryLens : hfile = [ok |-> TRUE, items |-> OldHistory(n)]
    /\ uploads = {}
    /\ clock = Len(hfile.items) + 1
    /\ rpc = [r \in Requests |-> "new"]
    /\ resp = [r \in Requests |-> None]
    /\ wpc = [r \in Requests |-> "none"]
    /\ wmode = [r \in Requests |-> None]
    /\ wrep = [r \in Requests |-> EmptyDict]
    /\ wh = [r \in Requests |-> <<>>]
    /\ saved = hfile.items
    /\ appendCalls = [r \in Requests |-> 0]
    /\ PipeOff
    /\ ScoreOff
    /\ LogOff

\* StartScan without the busy check of lines 464-465
StartScanUnchecked(r) ==
    /\ rpc[r] = "new"
    /\ rpc' = [rpc EXCEPT ![r] = "returned"]
    /\ \E data \in RequestBodies :
          LET m == Get(data, "mode", Some("full")) IN
          /\ wmode' = [wmode EXCEPT ![r] = m]
          /\ wpc' = [wpc EXCEPT ![r] = "entry"]
          /\ resp' = [resp EXCEPT ![r] = Some("started")]
    /\ UNCHANGED <<state, lock, hfile, uploads, clock, wrep, wh, saved,
                   appendCalls, pipeVars, scoreVars, logVars>>

\* start_scan(), lines 462-471: the busy check is made without _lock; when
\* it passes, the mode is read from the body and the worker thread started
StartScan(r) ==
    /\ rpc[r] = "new"
    /\ rpc' = [rpc EXCEPT ![r] = "returned"]
    /\ IF state.running
       THEN /\ resp' = [resp EXCEPT ![r] = Some("busy")]
            /\ UNCHANGED <<wpc, wmode>>
       ELSE \E data \in RequestBodies :
               LET m == Get(data, "mode", Some("full")) IN
               /\ wmode' = [wmode EXCEPT ![r] = m]
               /\ wpc' = [wpc EXCEPT ![r] = "entry"]
               /\ resp' = [resp EXCEPT ![r] = Some("started")]
    /\ UNCHANGED <<state, lock, hfile, uploads, clock, wrep, wh, saved,
                   appendCalls, pipeVars, scoreVars, logVars>>

\* scan_worker, lines 311-312: _lock is taken, running is set
WorkerEnterRunning(w) ==
    /\ wpc[w] = "entry"
    /\ lock = 0
    /\ lock' = w
    /\ state' = [state EXCEPT !.running = TRUE]
    /\ wpc' = [wpc EXCEPT ![w] = "entry_mode"]
    /\ UNCHANGED <<hfile, uploads, clock, rpc, resp, wmode, wrep, wh,
                   saved, appendCalls, pipeVars, scoreVars, logVars>>

\* scan_worker, line 313
WorkerEnterMode(w) ==
    /\ wpc[w] = "entry_mode"
    /\ state' = [state EXCEPT !.mode = wmode[w]]
    /\ wpc' = [wpc EXCEPT ![w] = "entry_time"]
    /\ UNCHANGED <<lock, hfile, uploads, clock, rpc, resp, wmode, wrep,
                   wh, saved, appendCalls, pipeVars, scoreVars, logVars>>

\* scan_worker, line 314: start_time is set, _lock is released
WorkerEnterTime(w) ==
    /\ wpc[w] = "entry_time"
    /\ state' = [state EXCEPT !.start_time = Some(clock)]
    /\ lock' = 0
    /\ wpc' = [wpc EXCEPT ![w] = "scan"]
    /\ UNCHANGED <<hfile, uploads, clock, rpc, resp, wmode, wrep, wh, saved,
                   appendCalls, pipeVars, scoreVars, logVars>>

\* WorkerScan with the state reset of lines 337-341 placed after the try
\* block instead of in a finally: an exception ends the thread
WorkerScanNoFinally(w) ==
    /\ wpc[w] = "scan"
    /\ \E t \in JobTelemetry :
          LET r == RunScan(wmode[w], t, clock) IN
          IF r.raised
          THEN /\ wpc' = [wpc EXCEPT ![w] = "done"]
               /\ wrep' = wrep
          ELSE /\ wpc' = [wpc EXCEPT ![w] = "write"]
               /\ wrep' = [wrep EXCEPT ![w] = r.rep]
    /\ clock' = clock + 1
    /\ UNCHANGED <<state, lock, hfile, uploads, rpc, resp, wmode, wh,
                   saved, appendCalls, pipeVars, scoreVars, logVars>>

\* scan_worker, lines 315-319 and 335-336: the pipeline runs; an exception
\* it raises is caught at line 335 and control passes to the finally.
\* The report's timestamp is read when the scan starts (line 89) and the
\* scan takes time: psutil.cpu_percent(interval=1) blocks (line 109).
WorkerScan(w) ==
    /\ wpc[w] = "scan"
    /\ \E t \in JobTelemetry :
          LET r == RunScan(wmode[w], t, clock) IN
          IF r.raised
          THEN /\ wpc' = [wpc EXCEPT ![w] = "finally"]
               /\ wrep' = wrep
          ELSE /\ wpc' = [wpc EXCEPT ![w] = "write"]
               /\ wrep' = [wrep EXCEPT ![w] = r.rep]
    /\ clock' = clock + 1
    /\ UNCHANGED <<state, lock, hfile, uploads, rpc, resp, wmode, wh,
                   saved, appendCalls, pipeVars, scoreVars, logVars>>

\* scan_worker, lines 321-325: the report file is written and the latest
\* pointer set to it; a failure of open or json.dump is caught at line 335
WorkerWriteReport(w) ==
    /\ wpc[w] = "write"
    /\ LET path == [host |-> Get(wrep[w], "host", "host"), stamp |-> clock] IN
       \E ok \in BOOLEAN :
          IF ok
          THEN /\ uploads' = uploads \cup {path}
               /\ state' = [state EXCEPT !.latest = Some(path)]
               /\ wpc' = [wpc EXCEPT ![w] = "append"]
          ELSE /\ wpc' = [wpc EXCEPT ![w] = "finally"]
               /\ UNCHANGED <<uploads, state>>
    /\ UNCHANGED <<lock, hfile, clock, rpc, resp, wmode, wrep, wh, saved,
                   appendCalls, pipeVars, scoreVars, logVars>>

\* scan_worker, lines 326-333, and append_history, lines 75-79: the file
\* is read and the entry appended to the list read
WorkerLoadHistory(w) ==
    /\ wpc[w] = "append"
    /\ wh' = [wh EXCEPT ![w] = AppendedHistory(hfile, HistoryEntry(wrep[w], clock))]
    /\ appendCalls' = [appendCalls EXCEPT ![w] = @ + 1]
    /\ wpc' = [wpc EXCEPT ![w] = "save"]
    /\ UNCHANGED <<state, lock, hfile, uploads, clock, rpc, resp, wmode, wrep,
                   saved, pipeVars, scoreVars, logVars>>

\* append_history, line 80, and save_history, lines 66-71: open(.., "w")
\* may fail, leaving the file as it was; it truncates the file, so a
\* json.dump that fails leaves a file json.load cannot parse.  Either
\* exception is caught at line 70.  The locals of append_history end here.
WorkerSaveHistory(w) ==
    /\ wpc[w] = "save"
    /\ \E outcome \in {"written", "open failed", "dump failed"} :
          /\ hfile' = IF outcome = "written" THEN [ok |-> TRUE, items |-> wh[w]]
                      ELSE IF outcome = "dump failed" THEN [ok |-> FALSE, items |-> <<>>]
                      ELSE hfile
          /\ saved' = IF outcome = "written" THEN Append(saved, wh[w][Len(wh[w])])
                      ELSE saved
    /\ wh' = [wh EXCEPT ![w] = <<>>]
    /\ wpc' = [wpc EXCEPT ![w] = "finally"]
    /\ UNCHANGED <<state, lock, uploads, clock, rpc, resp, wmode, wrep,
                   appendCalls, pipeVars, scoreVars, logVars>>

\* scan_worker, lines 337-339: _lock is taken, running is cleared
WorkerExitRunning(w) ==
    /\ wpc[w] = "finally"
    /\ lock = 0
    /\ lock' = w
    /\ state' = [state EXCEPT !.running = FALSE]
    /\ wpc' = [wpc EXCEPT ![w] = "exit_mode"]
    /\ UNCHANGED <<hfile, uploads, clock, rpc, resp, wmode, wrep, wh,
                   saved, appendCalls, pipeVars, scoreVars, logVars>>

\* scan_worker, line 340
WorkerExitMode(w) ==
    /\ wpc[w] = "exit_mode"
    /\ state' = [state EXCEPT !.mode = None]
    /\ wpc' = [wpc EXCEPT ![w] = "exit_time"]
    /\ UNCHANGED <<lock, hfile, uploads, clock, rpc, resp, wmode, wrep,
                   wh, saved, appendCalls, pipeVars, scoreVars, logVars>>

\* WorkerExitTime without the assignment of line 341
WorkerExitTimeKept(w) ==
    /\ wpc[w] = "exit_time"
    /\ state' = state
    /\ lock' = 0
    /\ wrep' = [wrep EXCEPT ![w] = EmptyDict]
    /\ wmode' = [wmode EXCEPT ![w] = None]
    /\ wpc' = [wpc EXCEPT ![w] = "done"]
    /\ UNCHANGED <<hfile, uploads, clock, rpc, resp, wh,
                   saved, appendCalls, pipeVars, scoreVars, logVars>>

\* scan_worker, line 341: start_time is cleared, _lock is released, and the
\* thread ends with its locals
WorkerExitTime(w) ==
    /\ wpc[w] = "exit_time"
    /\ state' = [state EXCEPT !.start_time = None]
    /\ lock' = 0
    /\ wrep' = [wrep EXCEPT ![w] = EmptyDict]
    /\ wmode' = [wmode EXCEPT ![w] = None]
    /\ wpc' = [wpc EXCEPT ![w] = "done"]
    /\ UNCHANGED <<hfile, uploads, clock, rpc, resp, wh,
                   saved, appendCalls, pipeVars, scoreVars, logVars>>

\* the steps of scan_worker
Worker(w) ==
    \/ WorkerEnterRunning(w)
    \/ WorkerEnterMode(w)
    \/ WorkerEnterTime(w)
    \/ WorkerScan(w)
    \/ WorkerWriteReport(w)
    \/ WorkerLoadHistory(w)
    \/ WorkerSaveHistory(w)
    \/ WorkerExitRunning(w)
    \/ WorkerExitMode(w)
    \/ WorkerExitTime(w)

Next ==
    \E r \in Requests :
       \/ StartScan(r)
       \/ Worker(r)

Spec == Init /\ [][Next]_vars

\* every started thread keeps being scheduled; _lock is held only across
\* the three assignments of lines 312-314 and 339-341
LiveSpec == Spec /\ \A w \in Requests : WF_vars(Worker(w))

----------------------------------------------------------------------------
(* One run of the pipeline over every combination of telemetry outcomes:   *)
(* the call of scan_worker, lines 316-319, taken alone.                    *)

Hostnames == {None, Some("web01")}

IfAddrs ==
    {None, Some(<<>>),
     Some(<<[family |-> "AF_INET", loopback |-> TRUE, address |-> "127.0.0.1"],
            [family |-> "AF_INET6", loopback |-> FALSE, address |-> "fe80::1"],
            [family |-> "AF_INET", loopback |-> FALSE, address |-> "10.0.0.5"]>>)}

CpuSamples == {None, Some(50), Some(95)}

MemorySamples == {None, Some(50), Some(96)}

RootPart(u) == [mountpoint |-> "/", device |-> "/dev/sda1", fstype |-> "ext4", usage |-> u]
PartitionLists ==
    {None, Some(<<>>), Some(<<RootPart(Some(50))>>),
     Some(<<[mountpoint |-> "/proc", device |-> "proc", fstype |-> "", usage |-> Some(0)],
            RootPart(Some(96)),
            [mountpoint |-> "/data", device |-> "/dev/sdb1", fstype |-> "xfs", usage |-> None]>>)}

Proc(pid, name, cpu, readable) == [pid |-> pid, name |-> name, cpu |-> cpu, readable |-> readable]
ProcessLists ==
    {None, Some(<<>>),
     Some(<<Proc(1, "systemd", Some(5), TRUE), Proc(7, "python", Some(30), TRUE),
            Proc(9, "gone", Some(0), FALSE)>>),
     Some(<<Proc(1, "systemd", None, TRUE), Proc(7, "python", Some(3), TRUE)>>),
     Some([i \in 1..9 |-> Proc(i, "worker", Some(i), TRUE)]),
     Some([i \in 1..9 |-> Proc(i, "worker", IF i = 5 THEN None ELSE Some(i), TRUE)])}

ConnLists ==
    {None,
     Some(<<[pid |-> 7, status |-> "LISTEN", laddr |-> "0.0.0.0:5000", raddr |-> ""],
            [pid |-> 7, status |-> "ESTABLISHED", laddr |-> "10.0.0.5:5000",
             raddr |-> "10.0.0.9:40000"]>>)}

Systems == {"Linux", "Windows"}

ServiceLists ==
    {None,
     Some(<<[pid |-> 1, name |-> "systemd", status |-> "running", systemd |-> TRUE],
            [pid |-> 7, name |-> "python", status |-> "stopped", systemd |-> FALSE]>>)}

LogFileSets == {<<None, None, None>>, <<None, Some(500), Some(10)>>, <<Some(0), Some(10), None>>}

ScanModes == {Some("partial"), Some("full")}

Telemetry ==
    [hostname : Hostnames, platform : {"Linux"}, system : Systems, ifaddrs : IfAddrs,
     cpu : CpuSamples, mem : MemorySamples, partitions : PartitionLists,
     procs : ProcessLists, connect : BOOLEAN, conns : ConnLists,
     services : ServiceLists, logfiles : LogFileSets]

JobIdle ==
    /\ state = IdleState
    /\ lock = 0
    /\ hfile = [ok |-> TRUE, items |-> <<>>]
    /\ uploads = {}
    /\ clock = 1
    /\ rpc = [r \in Requests |-> "off"]
    /\ resp = [r \in Requests |-> None]
    /\ wpc = [r \in Requests |-> "none"]
    /\ wmode = [r \in Requests |-> None]
    /\ wrep = [r \in Requests |-> EmptyDict]
    /\ wh = [r \in Requests |-> <<>>]
    /\ saved = <<>>
    /\ appendCalls = [r \in Requests |-> 0]

PipeInit ==
    /\ JobIdle
    /\ ScoreOff
    /\ LogOff
    /\ tel \in Telemetry
    /\ pmode \in ScanModes
    /\ pres = NewRun
    /\ ppc = "ready"

\* scan_worker, lines 316-319: rep = scan_partial() or scan_full()
RunPipeline ==
    /\ ppc = "ready"
    /\ pres' = RunScan(pmode, tel, clock)
    /\ ppc' = IF pres'.raised THEN "raised" ELSE "returned"
    /\ UNCHANGED <<jobVars, scoreVars, logVars, tel, pmode>>

PipeNext == RunPipeline

PipeSpec == PipeInit /\ [][PipeNext]_vars

----------------------------------------------------------------------------
(* One call of analyze over reports of every shape: each of cpu_percent,   *)
(* memory_percent, disks and network_online absent or present, a number    *)
(* None or on either side of each threshold, a disk with or without a      *)
(* percent.  An input is <<>> for an absent key and <<v>> for the value v. *)
(* The call is followed by one more: on a report one signal worse, or on   *)
(* the report the first call returned.                                     *)

\* most disks in a report
MaxDisks == 2

Mounts == <<"/", "/data", "/home", "/var", "/srv">>

CpuInputs == {<<>>} \cup {<<v>> : v \in {None, Some(50), Some(74), Some(75), Some(89),
                                          Some(90), Some(95)}}

MemoryInputs == {<<>>} \cup {<<v>> : v \in {None, Some(50), Some(84), Some(85), Some(94),
                                             Some(95), Some(96)}}

DiskPercentInputs == {<<>>} \cup {<<v>> : v \in {None, Some(50), Some(89), Some(90),
                                                  Some(94), Some(95), Some(96)}}

NetworkInputs == {<<>>, <<TRUE>>, <<FALSE>>}

\* a dict with key k when the input is present
With(d, k, input) == IF input = <<>> THEN d ELSE Put(d, k, input[1])

\* the i-th disk of a report
DiskAt(i, input) == With([mount |-> Mounts[i]], "percent", input)

DiskLists ==
    UNION {{[i \in 1..n |-> DiskAt(i, c[i])] : c \in [1..n -> DiskPercentInputs]} : n \in 0..MaxDisks}

DisksInputs == {<<>>} \cup {<<d>> : d \in DiskLists}

Report(c, m, d, n) ==
    With(With(With(With(EmptyDict, "cpu_percent", c), "memory_percent", m), "disks", d),
         "network_online", n)

ScoreInit ==
    /\ JobIdle
    /\ PipeOff
    /\ LogOff
    /\ \E c \in CpuInputs, m \in MemoryInputs, d \in DisksInputs, n \in NetworkInputs :
          srep = Report(c, m, d, n)
    /\ sout = EmptyDict
    /\ spc = "ready"

\* rep = analyze(rep), lines 179 and 254
Analyze ==
    /\ spc = "ready"
    /\ sout' = analyze(srep)
    /\ spc' = "scored"
    /\ UNCHANGED <<jobVars, pipeVars, logVars, srep>>

\* the percentages a signal of a report can rise to
PercentLevels == {50, 74, 75, 84, 85, 89, 90, 94, 95, 96}

\* the reports that hold key k of rep at a higher percentage
HigherSignal(rep, k) ==
    IF k \in DOMAIN rep /\ rep[k] # None
    THEN {Put(rep, k, Some(v)) : v \in {x \in PercentLevels : x > rep[k][1]}}
    ELSE {}

\* the disk lists that hold one disk of disks at a higher percentage
HigherDisk(disks) ==
    UNION {IF "percent" \in DOMAIN disks[i] /\ disks[i]["percent"] # None
           THEN {[disks EXCEPT ![i] = Put(@, "percent", Some(v))] :
                     v \in {x \in PercentLevels : x > disks[i]["percent"][1]}}
           ELSE {} : i \in 1..Len(disks)}

\* the disk lists that hold one disk more than disks
ExtraDisk(disks) ==
    IF Len(disks) < MaxDisks
    THEN {Append(disks, DiskAt(Len(disks) + 1, p)) : p \in DiskPercentInputs}
    ELSE {}

\* the reports that differ from rep in one signal only, and for the worse
WorseReports(rep) ==
    HigherSignal(rep, "cpu_percent") \cup HigherSignal(rep, "memory_percent")
    \cup (IF "disks" \in DOMAIN rep
          THEN {Put(rep, "disks", d) : d \in HigherDisk(rep["disks"]) \cup ExtraDisk(rep["disks"])}
          ELSE {})
    \cup (IF Get(rep, "network_online", FALSE) THEN {Put(rep, "network_online", FALSE)} ELSE {})

\* analyze called on a second report, one signal worse than the first
AnalyzeWorse ==
    /\ spc = "scored"
    /\ \E worse \in WorseReports(srep) :
          /\ srep' = worse
          /\ sout' = analyze(worse)
    /\ spc' = "worse"
    /\ UNCHANGED <<jobVars, pipeVars, logVars>>

\* the fields scan_full adds between its two calls of analyze, lines 187-252
DeepFields(rep) ==
    Put(Put(Put(Put(rep, "listening", <<>>), "connections", <<>>),
            "services_snapshot", <<>>), "logs_snippet", <<"No readable system log available.">>)

\* analyze called again on the report it returned: scan_full calls it on
\* the report of scan_partial (line 179) after adding its fields (line 254)
AnalyzeAgain ==
    /\ spc = "scored"
    /\ \E deep \in BOOLEAN : sout' = analyze(IF deep THEN DeepFields(sout) ELSE sout)
    /\ spc' = "again"
    /\ UNCHANGED <<jobVars, pipeVars, logVars, srep>>

ScoreNext == Analyze \/ AnalyzeWorse \/ AnalyzeAgain

ScoreSpec == ScoreInit /\ [][ScoreNext]_vars

----------------------------------------------------------------------------
(* The log stream: log (lines 44-51) puts every line on the one queue      *)
(* _log_q (line 41) and every connection to /stream (lines 521-533) runs   *)
(* event_stream, which takes lines from that same queue.  A line is        *)
(* [n, msg]: n numbers the calls of log in the order of their puts, in     *)
(* place of the timestamp of line 45.                                      *)

\* number of calls of log
MaxLogCalls == 3

\* the message of line 116
LogMessages == {"Starting PARTIAL scan (quick)."}

LogInit ==
    /\ JobIdle
    /\ PipeOff
    /\ ScoreOff
    /\ LogIdle
    /\ subs = [s \in Subscribers |-> [pc |-> "none", got |-> <<>>, last |-> "none"]]

Attached == {s \in Subscribers : subs[s].pc = "attached"}

\* log(msg), lines 44-51: _log_q.put(line); the queue is unbounded, so the
\* put neither blocks nor raises
LogCall(msg) ==
    /\ Len(logged) < MaxLogCalls
    /\ log_q' = Append(log_q, [n |-> Len(logged) + 1, msg |-> msg])
    /\ logged' = Append(logged, Attached)
    /\ UNCHANGED <<jobVars, pipeVars, scoreVars, subs>>

\* GET /stream, lines 521-533: the response starts iterating event_stream
Attach(s) ==
    /\ subs[s].pc = "none"
    /\ subs' = [subs EXCEPT ![s].pc = "attached"]
    /\ UNCHANGED <<jobVars, pipeVars, scoreVars, log_q, logged>>

\* StreamData taking the newest line of the queue
StreamDataNewest(s) ==
    /\ subs[s].pc = "attached"
    /\ log_q # <<>>
    /\ subs' = [subs EXCEPT ![s].got = Append(@, log_q[Len(log_q)]), ![s].last = "data"]
    /\ log_q' = SubSeq(log_q, 1, Len(log_q) - 1)
    /\ UNCHANGED <<jobVars, pipeVars, scoreVars, logged>>

\* lines 527-528: line = _log_q.get(block=True, timeout=0.5); yield data
StreamData(s) ==
    /\ subs[s].pc = "attached"
    /\ log_q # <<>>
    /\ subs' = [subs EXCEPT ![s].got = Append(@, Head(log_q)), ![s].last = "data"]
    /\ log_q' = Tail(log_q)
    /\ UNCHANGED <<jobVars, pipeVars, scoreVars, logged>>

\* lines 529-531: the get timed out on the empty queue; yield keep-alive
StreamKeepAlive(s) ==
    /\ subs[s].pc = "attached"
    /\ log_q = <<>>
    /\ subs' = [subs EXCEPT ![s].last = "keep-alive"]
    /\ UNCHANGED <<jobVars, pipeVars, scoreVars, log_q, logged>>

\* the client closes the connection: the generator is closed
Detach(s) ==
    /\ subs[s].pc = "attached"
    /\ subs' = [subs EXCEPT ![s].pc = "closed"]
    /\ UNCHANGED <<jobVars, pipeVars, scoreVars, log_q, logged>>

LogNext ==
    \/ \E msg \in LogMessages : LogCall(msg)
    \/ \E s \in Subscribers :
          Attach(s) \/ StreamData(s) \/ StreamKeepAlive(s) \/ Detach(s)

LogSpec == LogInit /\ [][LogNext]_vars

----------------------------------------------------------------------------
(* Properties of the job runner *)

\* the scans in progress: threads started and not yet ended
ScansInProgress == {w \in Requests : wpc[w] \notin {"none", "done"}}

\* a scan that is collecting telemetry or persisting its report
Working(w) == wpc[w] \in {"scan", "write", "append", "save"}

RunStateIdle == ~state.running /\ state.mode = None /\ state.start_time = None

\* C1: at most one scan is in progress at any time, whatever the
\* interleaving of start requests and scan workers.
C1_AtMostOneScan == Cardinality(ScansInProgress) <= 1

\* C2: a start request handled while running is true answers busy, starts
\* no scan (then or later) and leaves running, mode and start_time as they
\* are.
C2_BusyRejected ==
    [][\A r \in Requests :
          /\ (rpc[r] = "new" /\ rpc'[r] # "new" /\ state.running)
                => /\ resp'[r] = Some("busy")
                   /\ wpc' = wpc
                   /\ state'.running = state.running
                   /\ state'.mode = state.mode
                   /\ state'.start_time = state.start_time
          /\ (resp[r] = Some("busy")) => (wpc'[r] = "none" /\ resp'[r] = resp[r])]_vars

\* a request was answered busy while another request's scan is under way
C2_Witness ==
    \E r, w \in Requests :
       /\ resp[r] = Some("busy")
       /\ Working(w)
       /\ state.running /\ state.mode # None /\ state.start_time # None

\* C3: every scan that has set running ends with RunState idle (running
\* false, mode and start_time cleared), also when the pipeline raises or
\* the report or the history cannot be written.
C3_EventuallyIdle ==
    \A w \in Requests : (wpc[w] = "entry_mode") ~> (wpc[w] = "done" /\ RunStateIdle)

\* a scan that failed before its history entry has ended, and another whose
\* history file could not be written has ended, with RunState idle
C3_Witness ==
    /\ RunStateIdle
    /\ \E w \in Requests : wpc[w] = "done" /\ appendCalls[w] = 0
    /\ \E w \in Requests : wpc[w] = "done" /\ appendCalls[w] = 1 /\ ~hfile.ok

\* C4: RunState is never idle while a scan is still collecting or
\* persisting: the report, the latest pointer and the history entry come
\* before the flip to idle.
C4_IdleOnlyAfterPersist == ~state.running => \A w \in Requests : ~Working(w)

\* C5: the history read back is the last max_items of the entries written,
\* in the order they were written: only the oldest is ever dropped.
C5_HistoryIsLastEight ==
    /\ Len(load_history(hfile)) <= max_items
    /\ load_history(hfile) = LastN(saved, max_items)

\* C6: every scan run that has returned to idle appended exactly one
\* history entry.
C6_OneEntryPerRun == \A w \in Requests : wpc[w] = "done" => appendCalls[w] = 1

----------------------------------------------------------------------------
(* Properties of the pipeline *)

\* C7: scan_partial and scan_full return a report for every combination of
\* failing telemetry calls; they never raise to their caller.
C7_NeverRaises == ppc # "raised"

----------------------------------------------------------------------------
(* Properties of the scorer *)

\* C8: the score of every report is an integer from 0 to 100.
C8_ScoreInRange == spc = "scored" => sout["score"] \in 0..100

\* a report whose deductions exceed 100 was scored
C8_Witness ==
    /\ spc = "scored"
    /\ sout["score"] = 0
    /\ Len(sout["remediations"]) >= 4
    /\ "disks" \in DOMAIN srep /\ Len(srep["disks"]) = MaxDisks

\* the report of the four-signal example: CPU 50, memory 96, one disk at
\* 96, network offline
C9_Report ==
    [cpu_percent |-> Some(50), memory_percent |-> Some(96),
     disks |-> <<[mount |-> "/", percent |-> Some(96)]>>, network_online |-> FALSE]

C9_Remediations == <<LowMemory, DiskFull([mount |-> "/"]), NetworkOffline>>

\* C9 as stated: the example scores 0, with the memory, disk and network
\* remediations.
C9_ScoresZero ==
    (spc = "scored" /\ srep = C9_Report)
        => (sout["score"] = 0 /\ sout["remediations"] = C9_Remediations)

\* C9 as amended: the example scores 5 (35 + 35 + 25 = 95 is deducted and
\* nothing is clamped), with the memory, disk and network remediations.
C9_ScoresFive ==
    (spc = "scored" /\ srep = C9_Report)
        => (sout["score"] = 5 /\ sout["remediations"] = C9_Remediations)

C9_Witness == spc = "scored" /\ srep = C9_Report

\* the deduction table of the scorer, signal by signal; a signal that is
\* absent or None deducts nothing
Percent(d, k) == LET v == Get(d, k, None) IN IF v = None THEN 0 ELSE v[1]

CpuRow(rep) ==
    LET p == Percent(rep, "cpu_percent") IN
    IF p >= 90 THEN <<[points |-> 40, rem |-> HighCpu]>>
    ELSE IF p >= 75 THEN <<[points |-> 15, rem |-> ElevatedCpu]>>
    ELSE <<>>

MemoryRow(rep) ==
    LET p == Percent(rep, "memory_percent") IN
    IF p >= 95 THEN <<[points |-> 35, rem |-> LowMemory]>>
    ELSE IF p >= 85 THEN <<[points |-> 12, rem |-> HighMemory]>>
    ELSE <<>>

DiskRow(d) ==
    LET p == Percent(d, "percent") IN
    IF p >= 95 THEN <<[points |-> 35, rem |-> DiskFull(d)]>>
    ELSE IF p >= 90 THEN <<[points |-> 12, rem |-> DiskHigh(d)]>>
    ELSE <<>>

RECURSIVE DiskRows(_)
DiskRows(disks) ==
    IF disks = <<>> THEN <<>> ELSE DiskRows(SubSeq(disks, 1, Len(disks) - 1)) \o DiskRow(disks[Len(disks)])

NetworkRow(rep) ==
    IF "network_online" \in DOMAIN rep /\ rep["network_online"] = FALSE
    THEN <<[points |-> 25, rem |-> NetworkOffline]>>
    ELSE <<>>

Rows(rep) == CpuRow(rep) \o MemoryRow(rep) \o DiskRows(Get(rep, "disks", <<>>)) \o NetworkRow(rep)

RECURSIVE Points(_)
Points(rows) == IF rows = <<>> THEN 0 ELSE Head(rows).points + Points(Tail(rows))

\* the report of the one-signal example: CPU 95, memory 50, one disk at 50,
\* network online
C10_Report ==
    [cpu_percent |-> Some(95), memory_percent |-> Some(50),
     disks |-> <<[mount |-> "/", percent |-> Some(50)]>>, network_online |-> TRUE]

\* C10: the score is max(0, 100 - the points of the table rows that apply)
\* and the remediations are those rows', one each, in the order CPU,
\* memory, disks in list order, network; the one-signal example scores 60
\* with the single remediation "High CPU".
C10_ScoreIsTable ==
    spc = "scored" =>
       LET rows == Rows(srep) IN
       /\ sout["score"] = (IF Points(rows) >= 100 THEN 0 ELSE 100 - Points(rows))
       /\ sout["remediations"] = [i \in 1..Len(rows) |-> rows[i].rem]
       /\ (srep = C10_Report => sout["score"] = 60 /\ sout["remediations"] = <<HighCpu>>)

\* a report with a deduction for the CPU, the memory, every disk and the
\* network was scored
C10_Witness ==
    /\ spc = "scored"
    /\ Len(sout["remediations"]) = MaxDisks + 3
    /\ sout["remediations"][1] = ElevatedCpu

\* the one-signal example was scored
C10_ExampleScored == spc = "scored" /\ srep = C10_Report

\* C11: the scorer is monotonic: when analyze scores a second report that
\* differs from the first only by a higher cpu, a higher memory, a higher
\* percent on some disk, an extra disk or the network going offline, the
\* second score is at most the first.
C11_Monotonic == [][spc' = "worse" => sout'["score"] <= sout["score"]]_vars

\* a worsened report was scored lower than 100: its one change, or what the
\* first report held already, cost points
C11_Witness ==
    /\ spc = "worse"
    /\ Get(srep, "network_online", TRUE) = FALSE
    /\ Get(srep, "cpu_percent", None) = Some(96)
    /\ sout["score"] = 35

\* C12: analyze is idempotent: called on the report it returned, with or
\* without the fields scan_full adds in between, it gives the same score
\* and the same remediations as the first call.
C12_Idempotent ==
    [][spc' = "again" =>
          /\ sout'["score"] = sout["score"]
          /\ sout'["remediations"] = sout["remediations"]]_vars

\* analyze ran a second time on a report that had lost points and carried
\* the fields of a deep scan
C12_Witness ==
    /\ spc = "again"
    /\ "logs_snippet" \in DOMAIN sout
    /\ sout["score"] = 5
    /\ Len(sout["remediations"]) = 3

----------------------------------------------------------------------------
(* Properties of the log stream *)

\* the numbers of the lines connection s was sent
GotNumbers(s) == {subs[s].got[i].n : i \in 1..Len(subs[s].got)}

\* the numbers of the lines still on the queue
QueuedNumbers == {log_q[i].n : i \in 1..Len(log_q)}

\* C13: a connection is sent only lines logged while it was attached: no
\* line logged before it attached, and none logged while nobody was
\* attached, ever reaches it.
C13_NoReplay == \A s \in Subscribers : \A n \in GotNumbers(s) : s \in logged[n]

\* C14: every line logged while several connections were attached, once it
\* has left the queue, has been sent to each of those connections that is
\* still attached.
C14_FanOut ==
    \A n \in 1..Len(logged) :
        (Cardinality(logged[n]) >= 2 /\ n \notin QueuedNumbers)
            => \A s \in logged[n] \cap Attached : n \in GotNumbers(s)

\* C15: the lines sent to one connection are in the order of their puts.
C15_EmissionOrder ==
    \A s \in Subscribers :
        \A i, j \in 1..Len(subs[s].got) : i < j => subs[s].got[i].n < subs[s].got[j].n

\* two connections took lines in turn: one was sent the first and the third
\* line, the other the second
C15_Witness ==
    \E s, t \in Subscribers :
        /\ s # t
        /\ Len(subs[s].got) = 2
        /\ subs[s].got[1].n = 1 /\ subs[s].got[2].n = 3
        /\ GotNumbers(t) = {2}

----------------------------------------------------------------------------
(* Properties of the scan pipeline *)

\* of the calls the quick stages make, psutil.disk_partitions is the only
\* one that fails
OnlyDisksFail(t) ==
    /\ t.partitions = None
    /\ t.hostname # None /\ t.ifaddrs # None /\ t.cpu # None /\ t.mem # None
    /\ t.procs # None /\ t.connect

\* C16: when the disk enumeration raises and no other call of the quick
\* stages fails, the pipeline returns a report with host, platform,
\* timestamp, ip, cpu_percent, memory_percent, top_processes,
\* network_online, score and remediations all set, and disks the empty
\* list.
C16_DisksDegrade ==
    (ppc \in {"returned", "raised"} /\ OnlyDisksFail(tel)) =>
        /\ ppc = "returned"
        /\ {"host", "platform", "timestamp", "ip", "cpu_percent", "memory_percent", "disks",
            "top_processes", "network_online", "score", "remediations"} \subseteq DOMAIN pres.rep
        /\ pres.rep["host"] = tel.hostname[1]
        /\ pres.rep["cpu_percent"] = tel.cpu
        /\ pres.rep["memory_percent"] = tel.mem
        /\ Len(pres.rep["top_processes"]) > 0 <=> Len(ProcList(tel.procs[1])) > 0
        /\ pres.rep["network_online"] = TRUE
        /\ pres.rep["score"] \in 0..100
        /\ pres.rep["disks"] = <<>>

\* a deep scan whose disk enumeration raised returned a report with a busy
\* memory, its processes and no disk
C16_Witness ==
    /\ ppc = "returned"
    /\ pmode = Some("full")
    /\ OnlyDisksFail(tel)
    /\ pres.rep["disks"] = <<>>
    /\ pres.rep["memory_percent"] = Some(96)
    /\ Len(pres.rep["top_processes"]) = 8
    /\ \E i \in 1..Len(pres.logs) : pres.logs[i] = <<"Disk scan failed">>

DeepStages == <<"sockets", "services", "logs">>

\* the stage order of the numbered list: network before top processes
NumberedOrder(mode) ==
    LET quick == <<"identity", "cpu", "memory", "disks", "network", "processes">>
    IN IF mode = Some("partial") THEN quick ELSE quick \o DeepStages

\* the stage order of scan_partial and scan_full
StageOrder(mode) ==
    LET quick == <<"identity", "cpu", "memory", "disks", "processes", "network">>
    IN IF mode = Some("partial") THEN quick ELSE quick \o DeepStages

IsPrefix(a, b) == Len(a) <= Len(b) /\ a = SubSeq(b, 1, Len(a))

\* C17 as stated: a run that returns a report entered identity, CPU,
\* memory, disks, network, top processes in that order, a deep run then
\* sockets, services, log tail, and skipped none of them.
C17_NumberedOrder ==
    ppc = "returned" => pres.order = NumberedOrder(pmode)

\* C17: the stage order is fixed: identity, CPU, memory, disks, top
\* processes, network, and in a deep run then sockets, services, log tail.
\* A run that returns a report entered every stage of its mode in that
\* order; a run that raises entered the first stages of it.
C17_StageOrder ==
    /\ ppc = "returned" => pres.order = StageOrder(pmode)
    /\ ppc = "raised" => IsPrefix(pres.order, StageOrder(pmode))

\* a deep run returned after its nine stages with a stage degraded on the way
C17_Witness ==
    /\ ppc = "returned"
    /\ pmode = Some("full")
    /\ Len(pres.order) = 9
    /\ tel.procs = None /\ tel.conns = None

\* the cpu a process is ranked by, 0 for None
RankCpu(p) == OrZero(p.cpu)

\* C19: whatever the process snapshot, the report's top_processes holds at
\* most 8 entries, in descending order of cpu.
C19_TopEightSorted ==
    ppc = "returned" =>
        LET top == pres.rep["top_processes"] IN
        /\ Len(top) <= 8
        /\ \A i, j \in 1..Len(top) : i < j => RankCpu(top[i]) >= RankCpu(top[j])

----------------------------------------------------------------------------
(* Properties of the scorer on missing signals *)

\* the signals of rep that are missing, set to a healthy value
FillHealthy(rep) ==
    LET fill(d, k, v) == IF k \notin DOMAIN d \/ d[k] = None THEN Put(d, k, v) ELSE d
        r1 == fill(fill(rep, "cpu_percent", Some(50)), "memory_percent", Some(50))
        r2 == IF "network_online" \in DOMAIN r1 THEN r1 ELSE Put(r1, "network_online", TRUE)
        ds == Get(r2, "disks", <<>>)
    IN Put(r2, "disks", [i \in 1..Len(ds) |-> fill(ds[i], "percent", Some(50))])

\* a signal of rep is missing
SignalMissing(rep) ==
    \/ Get(rep, "cpu_percent", None) = None
    \/ Get(rep, "memory_percent", None) = None
    \/ "disks" \notin DOMAIN rep
    \/ "network_online" \notin DOMAIN rep
    \/ \E i \in 1..Len(Get(rep, "disks", <<>>)) : Get(rep["disks"][i], "percent", None) = None

\* C18: a missing signal costs nothing: a report whose cpu_percent or
\* memory_percent is None or absent, that has no disks or no network_online
\* field, or a disk without a percent, gets the score and the remediations
\* of the same report with those signals at a healthy value.
C18_MissingIsHealthy ==
    (spc = "scored" /\ SignalMissing(srep)) =>
        /\ sout["score"] = analyze(FillHealthy(srep))["score"]
        /\ sout["remediations"] = analyze(FillHealthy(srep))["remediations"]

\* a report without cpu_percent and network_online, with a memory of 96 and
\* a disk without a percent, was scored 65 for the memory alone
C18_Witness ==
    /\ spc = "scored"
    /\ "cpu_percent" \notin DOMAIN srep
    /\ "network_online" \notin DOMAIN srep
    /\ Get(srep, "memory_percent", None) = Some(96)
    /\ "disks" \in DOMAIN srep
    /\ \E i \in 1..Len(srep["disks"]) : "percent" \notin DOMAIN srep["disks"][i]
    /\ sout["score"] = 65
    /\ sout["remediations"] = <<LowMemory>>

----------------------------------------------------------------------------
(* Properties of RunState *)

\* C20 as stated: in every state a reader can see, running is true exactly
\* when mode and start_time are both set.
C20_Consistent ==
    state.running <=> (state.mode # None /\ state.start_time # None)

\* C20: whenever no scan worker holds _lock, running is true exactly when
\* start_time is set, and mode is None when running is false.
C20_ConsistentUnlocked ==
    lock = 0 =>
        /\ state.running <=> state.start_time # None
        /\ ~state.running => state.mode = None

\* a scan started with mode None is under way and nobody holds _lock
C20_Witness ==
    /\ lock = 0
    /\ \E w \in Requests : Working(w)
    /\ state.running
    /\ state.mode = None
    /\ state.start_time # None

====
